---- MODULE Spec2Model ----
(***************************************************************************)
(* Model of the pothosf bounded-time client (client.go, time.go and the    *)
(* POSIX semaphore wrapper).  Fixed-width Go integers are big-endian byte  *)
(* sequences (index 1 is the most significant byte), which is also the     *)
(* layout Encoder = binary.BigEndian gives them in the shared segment, so  *)
(* uint64, int64 and uint32 arithmetic wraps exactly as it does in Go.     *)
(***************************************************************************)
EXTENDS Integers, Sequences, FiniteSets, TLC

(***************************************************************************)
(* Fixed-width arithmetic on byte sequences                                *)
(***************************************************************************)

\* The low n bytes of the natural number v, big-endian.
RECURSIVE Nat2B(_, _)
Nat2B(v, n) ==
    IF n = 0 THEN <<>> ELSE Append(Nat2B(v \div 256, n - 1), v % 256)

U64(v) == Nat2B(v, 8)

U32(v) == Nat2B(v, 4)

U16(v) == Nat2B(v, 2)

Front(s) == SubSeq(s, 1, Len(s) - 1)

Last(s) == s[Len(s)]

\* a + b + c modulo 256^Len(a), for two sequences of the same length.
RECURSIVE AddCarry(_, _, _)
AddCarry(a, b, c) ==
    IF a = <<>> THEN <<>>
    ELSE LET s == Last(a) + Last(b) + c
         IN  Append(AddCarry(Front(a), Front(b), s \div 256), s % 256)

Complement(a) == [i \in 1..Len(a) |-> 255 - a[i]]

Zero(n) == [i \in 1..n |-> 0]

\* Wrapping addition and subtraction (the same bits for signed and unsigned).
WAdd(a, b) == AddCarry(a, b, 0)

WSub(a, b) == AddCarry(a, Complement(b), 1)

\* a * m + c modulo 256^Len(a), for a natural m below 2^23.
RECURSIVE MulCarry(_, _, _)
MulCarry(a, m, c) ==
    IF a = <<>> THEN <<>>
    ELSE LET s == Last(a) * m + c
         IN  Append(MulCarry(Front(a), m, s \div 256), s % 256)

WMulSmall(a, m) == MulCarry(a, m, 0)

\* Quotient and remainder of the unsigned a by a natural d below 2^23.
RECURSIVE DivRem(_, _)
DivRem(a, d) ==
    IF a = <<>> THEN [q |-> <<>>, r |-> 0]
    ELSE LET p   == DivRem(Front(a), d)
             cur == p.r * 256 + Last(a)
         IN  [q |-> Append(p.q, cur \div d), r |-> cur % d]

\* Unsigned a < b, for two sequences of the same length.
RECURSIVE ULess(_, _)
ULess(a, b) ==
    IF a = <<>> THEN FALSE
    ELSE IF a[1] # b[1] THEN a[1] < b[1]
    ELSE ULess(Tail(a), Tail(b))

\* The sign bit of a two's complement value.
IsNeg(a) == a[1] >= 128

\* Signed a < b.
SLess(a, b) ==
    IF IsNeg(a) # IsNeg(b) THEN IsNeg(a) ELSE ULess(a, b)

\* uint32 to uint64/int64 conversion (zero extension).
Ext64(a) == Zero(8 - Len(a)) \o a

\* The bits of a byte sequence, most significant first, and back.
Bits(a) == [i \in 1..(8 * Len(a)) |->
               (a[((i - 1) \div 8) + 1] \div (2 ^ (7 - ((i - 1) % 8)))) % 2]

UnBits(b) == [j \in 1..(Len(b) \div 8) |->
                 b[8*j - 7] * 128 + b[8*j - 6] * 64 + b[8*j - 5] * 32
               + b[8*j - 4] * 16  + b[8*j - 3] * 8  + b[8*j - 2] * 4
               + b[8*j - 1] * 2   + b[8*j]]

\* Position of the leading one bit (1 = most significant), 0 when a is zero.
LeadingOne(b) ==
    IF \E i \in 1..Len(b) : b[i] = 1
    THEN CHOOSE i \in 1..Len(b) : b[i] = 1 /\ \A j \in 1..(i - 1) : b[j] = 0
    ELSE 0

\* Number of significant bits of a.
BitLen(a) ==
    LET b == Bits(a) m == LeadingOne(b)
    IN  IF m = 0 THEN 0 ELSE Len(b) - m + 1

(***************************************************************************)
(* time.go: UnixTime, Sub, GetClockUncertainty, getDispersion              *)
(***************************************************************************)

\* const MaxClockDrift int64 = 1000000 (ppb), as the two factors the byte
\* arithmetic multiplies by: 1000 * 1000.
MaxClockDrift == <<1000, 1000>>

\* 1e9 nanoseconds per second, as three factors of 1000.
NanosPerSec == <<1000, 1000, 1000>>

OneE9 == 1000000000

RECURSIVE WMulAll(_, _)
WMulAll(a, fs) ==
    IF fs = <<>> THEN a ELSE WMulAll(WMulSmall(a, fs[1]), Tail(fs))

\* The zero value UnixTime{}.
EmptyUnixTime == [Sec |-> Zero(8), NSec |-> Zero(4), Dispersion |-> Zero(8)]

IsEmpty(t) == t.Sec = Zero(8) /\ t.NSec = Zero(4)

\* Sub with the borrowed second added to NSec but not taken from Sec.
Sub_keepsSec(t, other) ==
    LET borrow == ULess(t.NSec, other.NSec)
        vNSec  == IF borrow THEN WAdd(t.NSec, U32(OneE9)) ELSE t.NSec
        sd     == WMulAll(WSub(t.Sec, other.Sec), NanosPerSec)
        nsd    == WSub(Ext64(vNSec), Ext64(other.NSec))
    IN  WAdd(sd, nsd)

\* (t - other) in nanoseconds as an int64: borrow one second when
\* other.NSec > t.NSec, every step wrapping at its Go width.
Sub(t, other) ==
    LET borrow == ULess(t.NSec, other.NSec)
        vNSec  == IF borrow THEN WAdd(t.NSec, U32(OneE9)) ELSE t.NSec
        vSec   == IF borrow THEN WSub(t.Sec, U64(1)) ELSE t.Sec
        sd     == WMulAll(WSub(vSec, other.Sec), NanosPerSec)
        nsd    == WSub(Ext64(vNSec), Ext64(other.NSec))
    IN  WAdd(sd, nsd)

\* float64(x) for an unsigned x of at most 2^63: round to 53 significant
\* bits, ties to even.
Round53(x) ==
    LET b   == Bits(x)
        m   == LeadingOne(b)
        cut == m + 52
    IN  IF m = 0 \/ cut >= 64 THEN x
        ELSE LET kept == [i \in 1..64 |-> IF i <= cut THEN b[i] ELSE 0]
                 unit == [i \in 1..64 |-> IF i = cut THEN 1 ELSE 0]
                 half == b[cut + 1] = 1
                 rest == \E j \in (cut + 2)..64 : b[j] = 1
                 up   == half /\ (rest \/ b[cut] = 1)
             IN  IF up THEN WAdd(UnBits(kept), UnBits(unit)) ELSE UnBits(kept)

\* uint64(x / float64(1e9)) for a float64 x holding a non-negative integer:
\* the exact quotient k and remainder r, and k + 1 when the float64 division
\* rounds the quotient up to the next integer (within half an ulp of it).
TruncQuot(x) ==
    LET d1 == DivRem(x, 1000)
        d2 == DivRem(d1.q, 1000)
        d3 == DivRem(d2.q, 1000)
        k  == d3.q
        r  == d1.r + 1000 * d2.r + 1000000 * d3.r
        sh == 54 - BitLen(k)
        up == /\ r # 0
              /\ k # Zero(8)
              /\ sh < 30
              /\ OneE9 - r <= OneE9 \div (2 ^ sh)
    IN  IF up THEN WAdd(k, U64(1)) ELSE k

Returned(v) == [panic |-> FALSE, val |-> v]

Panicked == [panic |-> TRUE, val |-> Zero(8)]

\* GetClockUncertainty: the set of results a build can produce.  The int64
\* product nanosecond*MaxClockDrift wraps; a negative product gives a
\* negative float64 whose conversion to uint64 is implementation-dependent
\* unless it truncates to zero: amd64 yields the two's complement of the
\* truncated value, arm64 saturates to zero.
GetClockUncertainty(nanosecond) ==
    IF IsNeg(nanosecond) THEN {Panicked}
    ELSE LET p == WMulAll(nanosecond, MaxClockDrift)
         IN  IF ~IsNeg(p) THEN {Returned(TruncQuot(Round53(p)))}
             ELSE LET mag == TruncQuot(Round53(WSub(Zero(8), p)))
                  IN  IF mag = Zero(8) THEN {Returned(Zero(8))}
                      ELSE {Returned(WSub(Zero(8), mag)), Returned(Zero(8))}

\* getDispersion: info.Dispersion + uncertainty of the time elapsed from the
\* record's reference time to (sec, nsec); panics when that is negative.
getDispersion(info, sec, nsec) ==
    LET current == [Sec |-> sec, NSec |-> nsec, Dispersion |-> Zero(8)]
        ref     == [Sec |-> info.Sec, NSec |-> info.NSec, Dispersion |-> Zero(8)]
        ns      == Sub(current, ref)
    IN  IF IsNeg(ns) THEN {Panicked}
        ELSE {IF u.panic THEN Panicked ELSE Returned(WAdd(info.Dispersion, u.val)) :
                 u \in GetClockUncertainty(ns)}

(***************************************************************************)
(* client.go: the wire record codec                                        *)
(***************************************************************************)

ClientInfoSharedMemoryBufferSize == 48

\* The fixed size of an encoded ClientInfo.
RecordSize == 24

\* staleThresholdNanoseconds int64 = 300000000
staleThresholdNanoseconds == 300000000

BoolByte(b) == IF b THEN 1 ELSE 0

\* Marshal with Sec written at offset 4 and Dispersion at offset 12.
Marshal_swapsFields(c, buf) ==
    IF Len(buf) < RecordSize THEN [panic |-> TRUE, val |-> <<>>]
    ELSE [panic |-> FALSE,
          val   |-> <<BoolByte(c.Valid), BoolByte(c.Locked)>> \o c.Count
                    \o c.Sec \o c.Dispersion \o c.NSec]

\* ClientInfo.Marshal into buf: panics on a buffer shorter than 24 bytes,
\* otherwise returns buf[:24] holding the six fields at offsets 0,1,2,4,12,20.
Marshal(c, buf) ==
    IF Len(buf) < RecordSize THEN [panic |-> TRUE, val |-> <<>>]
    ELSE [panic |-> FALSE,
          val   |-> <<BoolByte(c.Valid), BoolByte(c.Locked)>> \o c.Count
                    \o c.Dispersion \o c.Sec \o c.NSec]

\* UnmarshalClientInfo: panics unless len(data) = 24; a flag is true only
\* for the byte value 1.
UnmarshalClientInfo(data) ==
    IF Len(data) # RecordSize THEN [panic |-> TRUE, info |-> <<>>]
    ELSE [panic |-> FALSE,
          info  |-> [Valid      |-> data[1] = 1,
                     Locked     |-> data[2] = 1,
                     Count      |-> SubSeq(data, 3, 4),
                     Dispersion |-> SubSeq(data, 5, 12),
                     Sec        |-> SubSeq(data, 13, 20),
                     NSec       |-> SubSeq(data, 21, 24)]]

(***************************************************************************)
(* Inputs: the instants the wall clock is sampled at, and the segment      *)
(* images the publisher writes                                             *)
(***************************************************************************)

\* Bound on the semaphore handles (and segment attachments) the process
\* opens in one behaviour; beyond it NewSemaphore fails.
MaxOpens == 2

\* Wall-clock samples <<seconds, nanoseconds>> returned by getSysClockTime.
Instants ==
    { <<0, 999999999>>, <<1, 0>>, <<1, 300000001>>, <<18447, 744073710>> }

Rec(valid, locked, count, disp) ==
    [Valid |-> valid, Locked |-> locked, Count |-> U16(count),
     Dispersion |-> disp, Sec |-> U64(1), NSec |-> U32(0)]

\* Records the publisher writes; all carry the reference time (1 s, 0 ns),
\* the one that is not valid a different Dispersion.
Records ==
    { Rec(TRUE, TRUE, 0, U64(100)),
      Rec(TRUE, TRUE, 1, U64(100)),
      Rec(TRUE, FALSE, 1, U64(100)),
      Rec(FALSE, TRUE, 1, U64(0)) }

\* A segment image: 2-byte big-endian length prefix, the encoded record,
\* zero padding up to the segment size.
Image(prefix, r) ==
    U16(prefix) \o Marshal(r, Zero(RecordSize)).val
                \o Zero(ClientInfoSharedMemoryBufferSize - 2 - RecordSize)

\* Length prefixes other than the record size (and other than the zero of
\* a fresh segment): a longer record region, one past the buffer, and the
\* largest 16-bit value.
OddPrefixes == {25, 47, 65535}

Images ==
    { Image(RecordSize, r) : r \in Records }
    \cup { Image(n, Rec(TRUE, TRUE, 1, U64(100))) : n \in OddPrefixes }

(***************************************************************************)
(* State                                                                   *)
(***************************************************************************)

VARIABLES
    shm,            \* the 48 bytes of the shared segment
    sem,            \* value of the named semaphore
    pubpc,          \* publisher: "idle", or "half" (holds the semaphore)
    pubImg,         \* the image the publisher is half-way through writing
    sems,           \* semaphore handles this process opened: "open" / "closed"
    atts,           \* segment attachments of this process: "attached" / "detached"
    mutex,          \* Client.mutex: index into sems, 0 = nil
    data,           \* Client.data: index into atts, 0 = nil
    shmID,          \* Client.shmID
    buf,            \* Client.buf
    last,           \* Client.last: [count, time]
    resetRequired,  \* Client.resetRequired
    pc,             \* "new" (no client yet), "idle", or the position in GetUnixTime
    loc,            \* locals of the running call: sec, nsec, what read returned
    outcome,        \* history: operation and result of the last completed call
    callLog,        \* history: the IPC and decode events of the current call
    pre,            \* history: the client's fields when the current call began
    curRead,        \* history: the counter and time derived by the last
                    \* completed call, unset when it derived none
    fnArgs,         \* the arguments of a direct call of a time.go or codec
                    \* function, <<>> when the client runs instead
    fnResult        \* what that call produced, <<>> before it returns

env == <<shm, sem, pubpc, pubImg>>

handles == <<sems, atts, mutex, data, shmID>>

hist == <<outcome, callLog, pre, curRead>>

calc == <<fnArgs, fnResult>>

vars == <<shm, sem, pubpc, pubImg, sems, atts, mutex, data, shmID, buf, last,
          resetRequired, pc, loc, outcome, callLog, pre, curRead, fnArgs,
          fnResult>>

\* The identifier shm.Get returns for the configured key.
SegmentID == 1

NoLoc == [sec |-> Zero(8), nsec |-> Zero(4), err |-> "nil", data |-> <<>>]

NoRead == [derived |-> FALSE, count |-> Zero(2), ut |-> EmptyUnixTime]

NoOutcome == [op |-> "none", kind |-> "none", ut |-> EmptyUnixTime]

Result(op, kind, ut) == [op |-> op, kind |-> kind, ut |-> ut]

\* The client's fields when a call begins, and whether the call before it
\* was a GetUnixTime that returned ErrNotReady or ErrStopped.
Snapshot ==
    [resetRequired |-> resetRequired,
     last          |-> last,
     afterRefusal  |-> /\ outcome.op = "GetUnixTime"
                       /\ outcome.kind \in {"ErrNotReady", "ErrStopped"}]

Client0 ==
    /\ shm = Zero(ClientInfoSharedMemoryBufferSize)
    /\ sem = 1
    /\ pubpc = "idle"
    /\ pubImg = <<>>
    /\ sems = <<>>
    /\ atts = <<>>
    /\ mutex = 0
    /\ data = 0
    /\ shmID = 0
    /\ buf = Zero(ClientInfoSharedMemoryBufferSize)
    /\ last = [count |-> Zero(2), time |-> EmptyUnixTime]
    /\ resetRequired = FALSE
    /\ pc = "new"
    /\ loc = NoLoc
    /\ outcome = NoOutcome
    /\ callLog = <<>>
    /\ pre = [resetRequired |-> FALSE,
              last |-> [count |-> Zero(2), time |-> EmptyUnixTime],
              afterRefusal |-> FALSE]
    /\ curRead = NoRead

Init ==
    /\ Client0
    /\ fnArgs = <<>>
    /\ fnResult = <<>>

(***************************************************************************)
(* client.go: Close, reset, tryReset                                       *)
(***************************************************************************)

\* FirstError keeps the first non-nil error.
FirstError(a, b) == IF a # "nil" THEN a ELSE b

Mark(tbl, h, status) == [tbl EXCEPT ![h] = status]

\* Close as it would be if a field were set to nil only when its release
\* succeeded.
Close_keepsFailed(m, d, ss, as) ==
    { [err    |-> FirstError(IF d # 0 THEN dtErr ELSE "nil",
                             IF m # 0 THEN clErr ELSE "nil"),
       mutex  |-> IF clErr = "nil" THEN 0 ELSE m,
       data   |-> IF dtErr = "nil" THEN 0 ELSE d,
       sems   |-> IF m # 0 THEN Mark(ss, m, "closed") ELSE ss,
       atts   |-> IF d # 0 THEN Mark(as, d, "detached") ELSE as,
       log    |-> (IF d # 0 THEN <<"dt">> ELSE <<>>)
                  \o (IF m # 0 THEN <<"semclose">> ELSE <<>>),
       failed |-> (IF dtErr # "nil" THEN <<"dtFailed">> ELSE <<>>)
                  \o (IF clErr # "nil" THEN <<"semcloseFailed">> ELSE <<>>)] :
      dtErr \in (IF d # 0 THEN {"nil", "dtErr"} ELSE {"nil"}),
      clErr \in (IF m # 0 THEN {"nil", "closeErr"} ELSE {"nil"}) }

\* Client.Close on the handles (m, d): detach the segment if held, close
\* the semaphore if held, set both fields to nil whatever the release
\* calls return, return the first error.  A release that reports an error
\* leaves no usable handle behind either.  log lists the release calls
\* made, failed the ones that returned an error.
Close(m, d, ss, as) ==
    { [err    |-> FirstError(IF d # 0 THEN dtErr ELSE "nil",
                             IF m # 0 THEN clErr ELSE "nil"),
       mutex  |-> 0,
       data   |-> 0,
       sems   |-> IF m # 0 THEN Mark(ss, m, "closed") ELSE ss,
       atts   |-> IF d # 0 THEN Mark(as, d, "detached") ELSE as,
       log    |-> (IF d # 0 THEN <<"dt">> ELSE <<>>)
                  \o (IF m # 0 THEN <<"semclose">> ELSE <<>>),
       failed |-> (IF dtErr # "nil" THEN <<"dtFailed">> ELSE <<>>)
                  \o (IF clErr # "nil" THEN <<"semcloseFailed">> ELSE <<>>)] :
      dtErr \in (IF d # 0 THEN {"nil", "dtErr"} ELSE {"nil"}),
      clErr \in (IF m # 0 THEN {"nil", "closeErr"} ELSE {"nil"}) }

\* reset as it would be with c.mutex assigned as soon as the semaphore is open.
reset_assignsEarly(m, d, id, ss, as) ==
    UNION { LET semFail == [err |-> TRUE, mutex |-> c.mutex, data |-> c.data,
                            shmID |-> id, sems |-> c.sems, atts |-> c.atts,
                            log |-> c.log \o <<"semopenErr">>]
                opened  == Append(c.sems, "open")
                getFail == [semFail EXCEPT !.sems = opened, !.mutex = Len(opened),
                               !.log = c.log \o <<"semopen", "shmgetErr">>]
                atFail  == [semFail EXCEPT !.sems = opened, !.mutex = Len(opened),
                               !.log = c.log \o <<"semopen", "shmget", "shmatErr">>]
                success == [err |-> FALSE, mutex |-> Len(opened),
                            data |-> Len(c.atts) + 1, shmID |-> SegmentID,
                            sems |-> opened, atts |-> Append(c.atts, "attached"),
                            log |-> c.log \o <<"semopen", "shmget", "shmat">>]
            IN  IF Len(c.sems) < MaxOpens
                THEN {semFail, getFail, atFail, success}
                ELSE {semFail}
          : c \in Close(m, d, ss, as) }

\* reset: Close (its error dropped), then NewSemaphore, shm.Get, shm.At;
\* the three fields are assigned only when all three succeeded, and an
\* early return keeps whatever Close left (nil, nil).  A semaphore opened
\* before a failing shm.Get or shm.At stays open, held by nobody.
reset(m, d, id, ss, as) ==
    UNION { LET semFail == [err |-> TRUE, mutex |-> c.mutex, data |-> c.data,
                            shmID |-> id, sems |-> c.sems, atts |-> c.atts,
                            log |-> c.log \o <<"semopenErr">>]
                opened  == Append(c.sems, "open")
                getFail == [semFail EXCEPT !.sems = opened,
                               !.log = c.log \o <<"semopen", "shmgetErr">>]
                atFail  == [semFail EXCEPT !.sems = opened,
                               !.log = c.log \o <<"semopen", "shmget", "shmatErr">>]
                success == [err |-> FALSE, mutex |-> Len(opened),
                            data |-> Len(c.atts) + 1, shmID |-> SegmentID,
                            sems |-> opened, atts |-> Append(c.atts, "attached"),
                            log |-> c.log \o <<"semopen", "shmget", "shmat">>]
            IN  IF Len(c.sems) < MaxOpens
                THEN {semFail, getFail, atFail, success}
                ELSE {semFail}
          : c \in Close(m, d, ss, as) }

\* tryReset as it would be if it did not clear resetRequired.
tryReset_keepsFlag(rr, m, d, id, ss, as) ==
    IF rr
    THEN { r @@ [resetRequired |-> TRUE] : r \in reset(m, d, id, ss, as) }
    ELSE { [err |-> FALSE, mutex |-> m, data |-> d, shmID |-> id, sems |-> ss,
            atts |-> as, log |-> <<>>, resetRequired |-> FALSE] }

tryReset_swallowsError(rr, m, d, id, ss, as) ==
    IF rr
    THEN { [r EXCEPT !.err = FALSE] @@ [resetRequired |-> r.err] :
              r \in reset(m, d, id, ss, as) }
    ELSE { [err |-> FALSE, mutex |-> m, data |-> d, shmID |-> id, sems |-> ss,
            atts |-> as, log |-> <<>>, resetRequired |-> FALSE] }

\* tryReset: nothing to do unless resetRequired; otherwise clear the flag,
\* reset, and set the flag again when reset failed.
tryReset(rr, m, d, id, ss, as) ==
    IF rr
    THEN { r @@ [resetRequired |-> r.err] :
              r \in reset(m, d, id, ss, as) }
    ELSE { [err |-> FALSE, mutex |-> m, data |-> d, shmID |-> id, sems |-> ss,
            atts |-> as, log |-> <<>>, resetRequired |-> FALSE] }

(***************************************************************************)
(* client.go: read, updateStaled, GetUnixTime                              *)
(***************************************************************************)

\* binary.BigEndian.Uint16(c.buf)
Uint16(b) == b[1] * 256 + b[2]

DeferredPostRuns_notOnPanic(path) == path \in {"return", "zero"}

\* The deferred function of read runs on every way out of the critical
\* section: a return, the zero-length return, a panic of the slice
\* expression.
DeferredPostRuns(path) == path \in {"return", "zero", "panic"}

ReadErr_keepsReturned(returned, postErr) ==
    IF returned # "nil" THEN returned ELSE postErr

\* The error read returns: the deferred function assigns the result of
\* Post to the named result err, over the value of the return statement.
ReadErr(returned, postErr) == postErr

\* What read does with the copied buffer after the critical section:
\* zero length returns (nil, 0, 0, ErrNotReady); otherwise the slice
\* c.buf[2 : 2+datalen], whose upper index is computed in uint16 and panics
\* when it is below 2 or above the buffer's capacity.  path tells whether
\* the statement returned or panicked; err is the error after the deferred
\* Post.
ReadReturn(b, sec, nsec, postErr) ==
    LET datalen == Uint16(b)
        hi      == (2 + datalen) % 65536
    IN  IF datalen = 0
        THEN [path |-> "zero", err |-> ReadErr("ErrNotReady", postErr),
              data |-> <<>>, sec |-> Zero(8), nsec |-> Zero(4)]
        ELSE IF hi < 2 \/ hi > Len(b)
        THEN [path |-> "panic", err |-> ReadErr("nil", postErr),
              data |-> <<>>, sec |-> Zero(8), nsec |-> Zero(4)]
        ELSE [path |-> "return", err |-> ReadErr("nil", postErr),
              data |-> SubSeq(b, 3, hi), sec |-> sec, nsec |-> nsec]

\* updateStaled: same counter as the last observed one, a last observed
\* time that is not empty, and more than the threshold after it.
updateStaled(l, ut, count) ==
    IF l.count # count THEN FALSE
    ELSE IF IsEmpty(l.time) THEN FALSE
    ELSE SLess(U64(staleThresholdNanoseconds), Sub(ut, l.time))

\* The record is refused unless it is both valid and locked.
NotTrusted_either(info) == ~info.Valid /\ ~info.Locked

NotTrusted(info) == ~info.Valid \/ ~info.Locked

NextLast_always(l, info, ut) == [count |-> info.Count, time |-> ut]

\* The last observed pair after a successful read.
NextLast(l, info, ut) ==
    IF l.count # info.Count THEN [count |-> info.Count, time |-> ut] ELSE l

\* Every failure GetUnixTime returns sets resetRequired first: an error
\* from read, a record that is not trusted, a stale counter.
SetsResetRequired_forgetsStopped(kind) == kind \in {"IPCError", "ErrNotReady"}

SetsResetRequired_forgetsNotReady(kind) == kind \in {"IPCError", "ErrStopped"}

SetsResetRequired(kind) == kind \in {"IPCError", "ErrNotReady", "ErrStopped"}

\* GetUnixTime after read returned r (no panic inside read): the set of
\* possible results [kind, ut, last, reset, read], reset telling whether
\* resetRequired is set, read what the call derived from the record.
GetUnixTimeAfterRead(r, l) ==
    LET fail(kind) == [kind |-> kind, ut |-> EmptyUnixTime, last |-> l,
                       reset |-> SetsResetRequired(kind), read |-> NoRead]
        abort      == [kind |-> "panic", ut |-> EmptyUnixTime, last |-> l,
                       reset |-> FALSE, read |-> NoRead]
        u          == UnmarshalClientInfo(r.data)
    IN  IF r.err # "nil"
        THEN {fail(IF r.err = "ErrNotReady" THEN "ErrNotReady" ELSE "IPCError")}
        ELSE IF u.panic THEN {abort}
        ELSE IF NotTrusted(u.info) THEN {fail("ErrNotReady")}
        ELSE { IF d.panic THEN abort
               ELSE LET ut   == [Sec |-> r.sec, NSec |-> r.nsec, Dispersion |-> d.val]
                        seen == [derived |-> TRUE, count |-> u.info.Count, ut |-> ut]
                    IN  IF updateStaled(l, ut, u.info.Count)
                        THEN [fail("ErrStopped") EXCEPT !.read = seen]
                        ELSE [kind |-> "ok", ut |-> ut,
                              last |-> NextLast(l, u.info, ut),
                              reset |-> FALSE, read |-> seen]
               : d \in getDispersion(u.info, r.sec, r.nsec) }

(***************************************************************************)
(* Actions of the client                                                   *)
(***************************************************************************)

Log(events) == callLog' = callLog \o events

\* GetUnixTime as it would be if it went back to Wait on ErrNotReady.
Finish_retriesNotReady(kind, ut, read) ==
    /\ pc' = IF kind = "ErrNotReady" THEN "wait" ELSE "idle"
    /\ loc' = NoLoc
    /\ outcome' = Result("GetUnixTime", kind, ut)
    /\ curRead' = read

Finish(kind, ut, read) ==
    /\ pc' = "idle"
    /\ loc' = NoLoc
    /\ outcome' = Result("GetUnixTime", kind, ut)
    /\ curRead' = read

\* NewClient: a fresh Client and reset on it; the client exists only when
\* reset succeeded.
NewClient ==
    /\ UNCHANGED calc
    /\ pc = "new"
    /\ \E r \in reset(0, 0, 0, sems, atts) :
          /\ sems' = r.sems
          /\ atts' = r.atts
          /\ mutex' = IF r.err THEN 0 ELSE r.mutex
          /\ data' = IF r.err THEN 0 ELSE r.data
          /\ shmID' = IF r.err THEN 0 ELSE r.shmID
          /\ pc' = IF r.err THEN "new" ELSE "idle"
          /\ outcome' = Result("NewClient", IF r.err THEN "IPCError" ELSE "ok",
                               EmptyUnixTime)
          /\ callLog' = r.log
    /\ UNCHANGED <<env, buf, last, resetRequired, loc, pre, curRead>>

\* Client.Close called by the application.
CallClose ==
    /\ UNCHANGED calc
    /\ pc = "idle"
    /\ \E c \in Close(mutex, data, sems, atts) :
          /\ sems' = c.sems
          /\ atts' = c.atts
          /\ mutex' = c.mutex
          /\ data' = c.data
          /\ outcome' = Result("Close", c.err, EmptyUnixTime)
          /\ callLog' = c.log \o c.failed
    /\ UNCHANGED <<env, shmID, buf, last, resetRequired, pc, loc, pre,
                   curRead>>

\* GetUnixTime, first step: read calls tryReset; its failure is returned
\* through read, and GetUnixTime sets resetRequired and returns the error.
EnterGetUnixTime ==
    /\ UNCHANGED calc
    /\ pc = "idle"
    /\ pre' = Snapshot
    /\ \E r \in tryReset(resetRequired, mutex, data, shmID, sems, atts) :
          /\ sems' = r.sems
          /\ atts' = r.atts
          /\ mutex' = r.mutex
          /\ data' = r.data
          /\ shmID' = r.shmID
          /\ callLog' = r.log
          /\ IF r.err
             THEN /\ resetRequired' = TRUE
                  /\ Finish("IPCError", EmptyUnixTime, NoRead)
             ELSE /\ resetRequired' = r.resetRequired
                  /\ pc' = "wait"
                  /\ loc' = NoLoc
                  /\ outcome' = Result("GetUnixTime", "running", EmptyUnixTime)
                  /\ UNCHANGED curRead
    /\ UNCHANGED <<env, buf, last>>

\* c.mutex.Wait() on a nil *Semaphore dereferences nil: the call panics.
WaitNil ==
    /\ UNCHANGED calc
    /\ pc = "wait"
    /\ mutex = 0
    /\ Log(<<"waitNil">>)
    /\ Finish("panic", EmptyUnixTime, NoRead)
    /\ UNCHANGED <<env, handles, buf, last, resetRequired, pre>>

\* Wait as it would be if it returned without the semaphore being positive.
WaitOk_doesNotBlock ==
    /\ UNCHANGED calc
    /\ pc = "wait"
    /\ mutex # 0
    /\ sems[mutex] = "open"
    /\ sem' = IF sem > 0 THEN sem - 1 ELSE 0
    /\ pc' = "clock"
    /\ Log(<<"wait">>)
    /\ UNCHANGED <<shm, pubpc, pubImg, handles, buf, last, resetRequired, loc,
                   outcome, pre, curRead>>

\* sem_wait returns once the semaphore is positive and decrements it.
WaitOk ==
    /\ UNCHANGED calc
    /\ pc = "wait"
    /\ mutex # 0
    /\ sems[mutex] = "open"
    /\ sem > 0
    /\ sem' = sem - 1
    /\ pc' = "clock"
    /\ Log(<<"wait">>)
    /\ UNCHANGED <<shm, pubpc, pubImg, handles, buf, last, resetRequired, loc,
                   outcome, pre, curRead>>

\* sem_wait fails (a signal interrupts it): read returns the error before
\* the deferred Post is registered; GetUnixTime sets resetRequired.
WaitFail ==
    /\ UNCHANGED calc
    /\ pc = "wait"
    /\ mutex # 0
    /\ resetRequired' = TRUE
    /\ Log(<<"waitErr">>)
    /\ Finish("IPCError", EmptyUnixTime, NoRead)
    /\ UNCHANGED <<env, handles, buf, last, pre>>

\* sec, nsec = getSysClockTime()
SampleClock ==
    /\ UNCHANGED calc
    /\ pc = "clock"
    /\ \E t \in Instants :
          loc' = [loc EXCEPT !.sec = U64(t[1]), !.nsec = U32(t[2])]
    /\ pc' = "copy"
    /\ Log(<<"clock">>)
    /\ UNCHANGED <<env, handles, buf, last, resetRequired, outcome, pre,
                   curRead>>

\* copy(c.buf, c.data): all 48 bytes of the segment, nothing from a nil slice.
CopySegment ==
    /\ UNCHANGED calc
    /\ pc = "copy"
    /\ buf' = IF data # 0 THEN shm ELSE buf
    /\ pc' = "post"
    /\ Log(<<"copy">>)
    /\ UNCHANGED <<env, handles, last, resetRequired, loc, outcome, pre,
                   curRead>>

\* The way out of the critical section: the return statement is evaluated
\* (and may panic on the slice), the deferred Post runs and succeeds or
\* fails, and read returns to GetUnixTime or the panic goes on.
LeaveCritical ==
    /\ UNCHANGED calc
    /\ pc = "post"
    /\ \E postErr \in {"nil", "postErr"} :
          LET r    == ReadReturn(buf, loc.sec, loc.nsec, postErr)
              runs == DeferredPostRuns(r.path)
          IN  /\ sem' = IF runs /\ postErr = "nil" THEN sem + 1 ELSE sem
              /\ Log((IF r.path = "panic" THEN <<"slicePanic">> ELSE <<>>)
                     \o (IF ~runs THEN <<>>
                         ELSE IF postErr = "nil" THEN <<"post">>
                         ELSE <<"postErr">>))
              /\ IF r.path = "panic"
                 THEN Finish("panic", EmptyUnixTime, NoRead)
                 ELSE /\ pc' = "process"
                      /\ loc' = [sec |-> r.sec, nsec |-> r.nsec,
                                 err |-> r.err, data |-> r.data]
                      /\ UNCHANGED <<outcome, curRead>>
    /\ UNCHANGED <<shm, pubpc, pubImg, handles, buf, last, resetRequired, pre>>

\* The rest of GetUnixTime, on what read returned.
Process ==
    /\ UNCHANGED calc
    /\ pc = "process"
    /\ \E o \in GetUnixTimeAfterRead(loc, last) :
          /\ last' = o.last
          /\ resetRequired' = (resetRequired \/ o.reset)
          /\ Finish(o.kind, o.ut, o.read)
    /\ Log(IF loc.err = "nil" THEN <<"decode">> ELSE <<>>)
    /\ UNCHANGED <<env, handles, buf, pre>>

(***************************************************************************)
(* The publisher (another process): it holds the semaphore while it writes *)
(* an image into the segment, in two parts                                 *)
(***************************************************************************)

\* sem_wait, then the first part of the image.
PubBegin ==
    /\ UNCHANGED calc
    /\ pubpc = "idle"
    /\ sem > 0
    /\ sem' = sem - 1
    /\ \E img \in Images :
          /\ shm' = SubSeq(img, 1, 6) \o SubSeq(shm, 7, Len(shm))
          /\ pubImg' = img
    /\ pubpc' = "half"
    /\ UNCHANGED <<handles, buf, last, resetRequired, pc, loc, hist>>

\* The rest of the image, then sem_post.
PubEnd ==
    /\ UNCHANGED calc
    /\ pubpc = "half"
    /\ shm' = pubImg
    /\ pubImg' = <<>>
    /\ sem' = sem + 1
    /\ pubpc' = "idle"
    /\ UNCHANGED <<handles, buf, last, resetRequired, pc, loc, hist>>

Next ==
    \/ NewClient
    \/ CallClose
    \/ EnterGetUnixTime
    \/ WaitNil
    \/ WaitOk
    \/ WaitFail
    \/ SampleClock
    \/ CopySegment
    \/ LeaveCritical
    \/ Process
    \/ PubBegin
    \/ PubEnd

Spec == Init /\ [][Next]_vars

\* Scheduling: a running call takes its next step (the goroutine is not
\* suspended for ever), the publisher releases the semaphore it took, and
\* the semaphore is fair: a Wait that finds it available again and again
\* gets it.  The last conjunct is WF_vars(Process) written out with the
\* enabling condition of Process, pc = "process".
ClientStep ==
    WaitNil \/ SampleClock \/ CopySegment \/ LeaveCritical

Fairness ==
    /\ SF_vars(WaitOk)
    /\ WF_vars(ClientStep)
    /\ WF_vars(PubEnd)
    /\ ([]<>(pc # "process") \/ []<><<Process>>_vars)

SpecFair == Init /\ [][Next]_vars /\ Fairness

(***************************************************************************)
(* Direct calls of the time.go functions and of the codec, each on         *)
(* arguments drawn from a bounded set                                      *)
(***************************************************************************)

\* hi * 1e9 + lo as a 64-bit value.
Nanos(hi, lo) == WAdd(WMulAll(U64(hi), NanosPerSec), U64(lo))

\* The int64 -v.
Neg64(v) == WSub(Zero(8), v)

\* Elapsed nanoseconds handed to GetClockUncertainty: around the test
\* values of time_test.go, around 9223372036854 ns (the largest n whose
\* product with MaxClockDrift fits an int64), one product beyond 2^64,
\* and negative values.
ElapsedInputs ==
    { U64(0), U64(1), U64(999), U64(1000), U64(1001), U64(100000000),
      U64(OneE9), Nanos(9007, 199254999), Nanos(9223, 372036854),
      Nanos(9223, 372036855), Nanos(9224, 0), Nanos(18446, 744073710),
      Neg64(U64(1)), Neg64(U64(1000)), Neg64(Nanos(9223, 372036855)) }

UnixTimeInputs ==
    { [Sec |-> sec, NSec |-> U32(nsec), Dispersion |-> Zero(8)] :
        sec \in {U64(0), U64(1), U64(2), U64(18447), Nanos(9, 223372036)},
        nsec \in {0, 1, 300000000, 854775807, 999999999} }

ClientInfoInputs ==
    { [Valid |-> v, Locked |-> l, Count |-> U16(c), Dispersion |-> d,
       Sec |-> sec, NSec |-> nsec] :
        v \in BOOLEAN, l \in BOOLEAN, c \in {0, 1, 258, 65535},
        d \in {U64(0), U64(100), <<1, 2, 3, 4, 5, 6, 7, 8>>, U64(OneE9)},
        sec \in {U64(1), <<8, 7, 6, 5, 4, 3, 2, 1>>},
        nsec \in {U32(0), <<9, 10, 11, 12>>, U32(999999999)} }

\* Lengths of the destination handed to Marshal.
BufferLengths == {0, 23, 24, 48}

\* Byte strings handed to UnmarshalClientInfo that no Marshal produced:
\* other lengths, and flag bytes other than 0 and 1.
RawInputs ==
    { Zero(n) : n \in {0, 1, 23, 25, 46, 48} }
    \cup { <<f, g>> \o Zero(RecordSize - 2) : f \in {0, 1, 2, 255}, g \in {1, 255} }

\* Records handed to getDispersion with a clock sample: reference times
\* before, at and after the samples, the last one 9223372038 s, more than
\* 2^63 ns after every sample.
ReferenceInputs ==
    { [Rec(TRUE, TRUE, 1, U64(100)) EXCEPT !.Sec = sec, !.NSec = U32(nsec)] :
        sec \in {U64(0), U64(1), U64(2), U64(18447), Nanos(9, 223372038)},
        nsec \in {0, 300000001} }

FnInputs ==
    { [fn |-> "GetClockUncertainty", nanosecond |-> n] : n \in ElapsedInputs }
    \cup { [fn |-> "Sub", t |-> a, other |-> b] :
               a \in UnixTimeInputs, b \in UnixTimeInputs }
    \cup { [fn |-> "Marshal", c |-> r, len |-> n] :
               r \in ClientInfoInputs, n \in BufferLengths }
    \cup { [fn |-> "UnmarshalClientInfo", data |-> d] : d \in RawInputs }
    \cup { [fn |-> "getDispersion", info |-> r, sec |-> U64(t[1]),
            nsec |-> U32(t[2])] : r \in ReferenceInputs, t \in Instants }

InitFn ==
    /\ Client0
    /\ fnArgs \in FnInputs
    /\ fnResult = <<>>

Called(fn, n) == fnArgs # <<>> /\ fnArgs.fn = fn /\ Len(fnResult) = n

Return(v) ==
    /\ fnResult' = Append(fnResult, v)
    /\ UNCHANGED <<env, handles, hist, buf, last, resetRequired, pc, loc, fnArgs>>

CallGetClockUncertainty ==
    /\ Called("GetClockUncertainty", 0)
    /\ \E u \in GetClockUncertainty(fnArgs.nanosecond) : Return(u)

CallGetDispersion ==
    /\ Called("getDispersion", 0)
    /\ \E d \in getDispersion(fnArgs.info, fnArgs.sec, fnArgs.nsec) : Return(d)

CallSub ==
    /\ Called("Sub", 0)
    /\ Return(Sub(fnArgs.t, fnArgs.other))

\* c.Marshal(buf) on a destination of the given length.
CallMarshal ==
    /\ Called("Marshal", 0)
    /\ Return(Marshal(fnArgs.c, Zero(fnArgs.len)))

\* UnmarshalClientInfo on given bytes, or on the bytes Marshal returned.
CallUnmarshalClientInfo ==
    \/ /\ Called("UnmarshalClientInfo", 0)
       /\ Return(UnmarshalClientInfo(fnArgs.data))
    \/ /\ Called("Marshal", 1)
       /\ ~fnResult[1].panic
       /\ Return(UnmarshalClientInfo(fnResult[1].val))

NextFn ==
    \/ CallGetClockUncertainty
    \/ CallGetDispersion
    \/ CallSub
    \/ CallMarshal
    \/ CallUnmarshalClientInfo

SpecFn == InitFn /\ [][NextFn]_vars

(***************************************************************************)
(* Properties                                                              *)
(***************************************************************************)

\* A GetUnixTime call has returned (or panicked) and nothing was called since.
Completed == pc = "idle" /\ outcome.op = "GetUnixTime"

\* The running or last call logged event e.
Has(e) == \E i \in DOMAIN callLog : callLog[i] = e

Count(es) == Cardinality({i \in DOMAIN callLog : callLog[i] \in es})

\* The record bytes of the last snapshot, as GetUnixTime decodes them.
SnapshotPrefix == Uint16(buf)

SnapshotValid == buf[3] = 1

SnapshotLocked == buf[4] = 1

SnapshotInfo == UnmarshalClientInfo(SubSeq(buf, 3, 2 + RecordSize)).info

Failures == {"IPCError", "ErrNotReady", "ErrStopped"}

\* C1: a GetUnixTime call that returns a time with a nil error decoded a
\* snapshot whose 24-byte record has Valid and Locked both set; no time
\* value comes out of a call on any other record.
C1_ReturnedTimeIsValidAndLocked ==
    (Completed /\ (outcome.kind = "ok" \/ outcome.ut # EmptyUnixTime))
        => /\ outcome.kind = "ok"
           /\ Has("copy")
           /\ SnapshotPrefix = RecordSize
           /\ SnapshotValid
           /\ SnapshotLocked

\* A call that reconnected first and then returned a time.
C1_Witness ==
    /\ Completed
    /\ outcome.kind = "ok"
    /\ pre.resetRequired
    /\ outcome.ut # EmptyUnixTime

\* C2: when the copied length prefix is zero and Wait and Post succeeded,
\* GetUnixTime returns ErrNotReady: no panic, no decode error.
C2_ZeroLengthReturnsNotReady ==
    (Completed /\ Has("wait") /\ Has("copy") /\ Has("post") /\ SnapshotPrefix = 0)
        => outcome.kind = "ErrNotReady"

\* C3: whenever two consecutive GetUnixTime calls both derive a time from a
\* valid and locked record with the same counter, the second returns
\* ErrStopped exactly when its time is more than staleThresholdNanoseconds
\* after the first one's.
C3_StaleIffGapExceedsThreshold ==
    [][ ( /\ pc = "process"
          /\ pc' = "idle"
          /\ curRead.derived
          /\ curRead'.derived
          /\ curRead'.count = curRead.count )
        => ( outcome'.kind = "ErrStopped"
             <=> SLess(U64(staleThresholdNanoseconds),
                       Sub(curRead'.ut, curRead.ut)) ) ]_vars

\* C4: every GetUnixTime call that returned a failure left resetRequired
\* set, and resetRequired goes from true to false only in the step of a
\* GetUnixTime call in which reset opened the semaphore, got and attached
\* the segment.
C4_FailureSetsReset ==
    (Completed /\ outcome.kind \in Failures) => resetRequired

C4_ClearedOnlyByReset ==
    (resetRequired /\ ~resetRequired')
        => /\ pc = "idle"
           /\ pc' = "wait"
           /\ \E i \in DOMAIN callLog' : callLog'[i] = "shmat"
           /\ mutex' # 0
           /\ data' # 0

C4_ResetRequiredDiscipline ==
    [](C4_FailureSetsReset) /\ [][C4_ClearedOnlyByReset]_vars

\* A call that began in Reset-Required, reconnected, and failed as stopped.
C4_Witness ==
    /\ Completed
    /\ pre.resetRequired
    /\ outcome.kind = "ErrStopped"
    /\ resetRequired

ZeroLengthCallPosted ==
    /\ Completed
    /\ Has("copy")
    /\ Has("post")
    /\ SnapshotPrefix = 0
    /\ ~pre.resetRequired

ResetFailed == Has("semopenErr") \/ Has("shmgetErr") \/ Has("shmatErr")

\* C6: a GetUnixTime call that begins in Reset-Required runs reset before
\* any Wait or copy; when reset fails the call is over with that failure,
\* resetRequired still set, no Wait and no copy; when reset succeeds the
\* call goes on to Wait, clock, copy, Post and decode on the handles reset
\* has just acquired.
C6_ReconnectFirst ==
    (outcome.op = "GetUnixTime" /\ pre.resetRequired)
        => /\ ResetFailed => /\ Completed
                             /\ outcome.kind = "IPCError"
                             /\ outcome.ut = EmptyUnixTime
                             /\ resetRequired
                             /\ mutex = 0
                             /\ Count({"wait", "waitErr", "waitNil", "clock",
                                       "copy", "post", "postErr", "decode"}) = 0
           /\ ~ResetFailed
                => /\ Len(callLog) >= 3
                   /\ \E i \in DOMAIN callLog :
                         /\ SubSeq(callLog, i, i + 2) = <<"semopen", "shmget", "shmat">>
                         /\ \A j \in 1..(i - 1) : callLog[j] \in {"dt", "semclose"}
                         /\ SubSeq(callLog, i + 3, Len(callLog)) \in
                               { <<>>, <<"waitErr">>, <<"wait">>,
                                 <<"wait", "clock">>, <<"wait", "clock", "copy">>,
                                 <<"wait", "clock", "copy", "post">>,
                                 <<"wait", "clock", "copy", "postErr">>,
                                 <<"wait", "clock", "copy", "slicePanic", "post">>,
                                 <<"wait", "clock", "copy", "slicePanic", "postErr">>,
                                 <<"wait", "clock", "copy", "post", "decode">> }
                   /\ mutex = Len(sems)
                   /\ data = Len(atts)
                   /\ sems[mutex] = "open"
                   /\ atts[data] = "attached"
                   /\ Completed => Count({"wait", "waitErr"}) = 1

\* Both branches: a failed reconnection, and a reconnection followed by a
\* read that returned a time.
C6_Witness ==
    /\ Completed
    /\ pre.resetRequired
    /\ ~ResetFailed
    /\ outcome.kind = "ok"
    /\ Has("semclose")

\* C7: reset closes what the client held before it opens anything; when it
\* returns, the client holds either nothing (mutex and data both nil) or
\* the semaphore and the attachment this very reset acquired, both open;
\* and in no state does the client hold a closed semaphore, a detached
\* segment, or one handle without the other.
C7_HandlesPaired ==
    /\ (mutex = 0) <=> (data = 0)
    /\ mutex # 0 => /\ mutex = Len(sems)
                    /\ sems[mutex] = "open"
                    /\ data = Len(atts)
                    /\ atts[data] = "attached"

RanReset(log) == \E i \in DOMAIN log : log[i] \in {"semopen", "semopenErr"}

C7_ResetStep ==
    (pc \in {"new", "idle"} /\ callLog' # callLog /\ RanReset(callLog'))
        => /\ \A i, j \in DOMAIN callLog' :
                 (callLog'[i] \in {"dt", "semclose"} /\
                  callLog'[j] \in {"semopen", "semopenErr"}) => i < j
           /\ mutex # 0 => sems'[mutex] = "closed"
           /\ data # 0 => atts'[data] = "detached"
           /\ \/ mutex' = 0 /\ data' = 0
              \/ /\ mutex' = Len(sems) + 1
                 /\ Len(sems') = Len(sems) + 1
                 /\ sems'[mutex'] = "open"
                 /\ data' = Len(atts) + 1
                 /\ Len(atts') = Len(atts) + 1
                 /\ atts'[data'] = "attached"

C7_ResetAllOrNothing ==
    [](C7_HandlesPaired) /\ [][C7_ResetStep]_vars

\* A reconnection that closed the old handles and then failed at shm.At.
C7_Witness ==
    /\ Has("semclose")
    /\ Has("dt")
    /\ Has("shmatErr")
    /\ mutex = 0
    /\ data = 0
    /\ outcome.op = "GetUnixTime"

Waits == {i \in DOMAIN callLog : callLog[i] = "wait"}

Posts == {i \in DOMAIN callLog : callLog[i] \in {"post", "postErr"}}

\* C8: in a GetUnixTime call a successful Wait happens at most once and is
\* followed by exactly one Post on every way out (return, zero-length
\* return, panic of the slice expression); the Post comes before the decode
\* and the arithmetic; the client is between Wait and Post only while it
\* samples the clock and copies, never when the call is over; and no Post
\* is issued without a successful Wait before it.
C8_WaitPostBracket ==
    /\ Cardinality(Waits) <= 1
    /\ Cardinality(Posts) <= Cardinality(Waits)
    /\ \A i \in Posts : \E j \in Waits : j < i
    /\ \A i \in DOMAIN callLog :
          callLog[i] = "decode" => \E j \in Posts : j < i
    /\ \A i \in DOMAIN callLog :
          callLog[i] \in {"clock", "copy", "slicePanic"}
              => /\ \E j \in Waits : j < i
                 /\ \A j \in Posts : i < j
    /\ pc \in {"new", "idle", "process"} => Cardinality(Posts) = Cardinality(Waits)
    /\ pc \in {"clock", "copy", "post"} => Cardinality(Waits) = 1 /\ Posts = {}
    /\ pc = "wait" => Waits = {}

\* A call that panicked inside the critical section and still posted.
C8_Witness ==
    /\ Completed
    /\ outcome.kind = "panic"
    /\ Has("slicePanic")
    /\ Has("wait")
    /\ Has("post")

UntrustedSnapshot ==
    /\ Completed
    /\ Has("copy")
    /\ SnapshotPrefix = RecordSize
    /\ (~SnapshotValid \/ ~SnapshotLocked)

NotReadyEffect ==
    /\ outcome.kind = "ErrNotReady"
    /\ outcome.ut = EmptyUnixTime
    /\ resetRequired
    /\ last = pre.last

\* C9 as stated: for a snapshot with a 24-byte record whose Valid or Locked
\* is false, GetUnixTime returns ErrNotReady and the empty UnixTime, sets
\* resetRequired and leaves the last observed pair as it was.
C9_UntrustedRecordNotReady == UntrustedSnapshot => NotReadyEffect

\* C9 amended: the same, for a call whose Post succeeded (a failed Post is
\* returned instead of ErrNotReady).
C9_UntrustedRecordNotReadyWhenPosted ==
    (UntrustedSnapshot /\ Has("post")) => NotReadyEffect

\* An unlocked record refused while an earlier observed pair is kept.
C9_Witness ==
    /\ UntrustedSnapshot
    /\ Has("post")
    /\ SnapshotValid
    /\ ~SnapshotLocked
    /\ outcome.kind = "ErrNotReady"
    /\ ~pre.resetRequired
    /\ ~IsEmpty(last.time)

InstantTime(t) == [Sec |-> U64(t[1]), NSec |-> U32(t[2]), Dispersion |-> Zero(8)]

\* C10: the Dispersion a successful GetUnixTime returns is the record's
\* Dispersion plus the clock uncertainty of the time elapsed since the
\* record's reference time (uint64 arithmetic), is not below the record's
\* Dispersion, and no later snapshot time gives the same record a smaller
\* one.
C10_DispersionGrows ==
    (Completed /\ outcome.kind = "ok")
        => LET info == SnapshotInfo
               ref  == [Sec |-> info.Sec, NSec |-> info.NSec, Dispersion |-> Zero(8)]
           IN  /\ \E u \in GetClockUncertainty(Sub(outcome.ut, ref)) :
                     /\ ~u.panic
                     /\ outcome.ut.Dispersion = WAdd(info.Dispersion, u.val)
               /\ ~ULess(outcome.ut.Dispersion, info.Dispersion)
               /\ \A t \in Instants :
                     ~IsNeg(Sub(InstantTime(t), outcome.ut))
                        => \A d \in getDispersion(info, U64(t[1]), U32(t[2])) :
                              ~d.panic => ~ULess(d.val, outcome.ut.Dispersion)

\* C11: GetClockUncertainty(n) is floor(n / 1000) for every non-negative
\* int64 n, also where n * MaxClockDrift is beyond the int64 range, it does
\* not decrease when n grows, and it panics for a negative n.
C11_UncertaintyIsFloor ==
    Called("GetClockUncertainty", 1)
        => LET n == fnArgs.nanosecond
               r == fnResult[1]
           IN  IF IsNeg(n) THEN r.panic
               ELSE /\ ~r.panic
                    /\ r.val = DivRem(n, 1000).q
                    /\ \A m \in ElapsedInputs :
                          (~IsNeg(m) /\ ~SLess(n, m))
                             => \A u \in GetClockUncertainty(m) :
                                   ~u.panic /\ ~ULess(r.val, u.val)

\* C12: a GetUnixTime call that copied a segment whose length prefix is
\* above 24, with a valid and locked record in the first 24 payload bytes,
\* does not panic; and whatever the 16-bit prefix is, the slice expression
\* of read stays inside the 48-byte buffer (it never panics).
C12_LongerPrefixIsRead ==
    /\ ( /\ Completed
         /\ Has("copy")
         /\ SnapshotPrefix > RecordSize
         /\ SnapshotValid
         /\ SnapshotLocked )
           => outcome.kind # "panic"
    /\ ~Has("slicePanic")

\* Seconds and nanoseconds as one unsigned 128-bit count of nanoseconds
\* (no wrap-around for any uint64 seconds).
TotalNanos(sec, nsec) ==
    WAdd(WMulAll(Zero(8) \o sec, NanosPerSec), Zero(12) \o nsec)

ReferenceIsLater ==
    ULess(TotalNanos(fnArgs.sec, fnArgs.nsec),
          TotalNanos(fnArgs.info.Sec, fnArgs.info.NSec))

\* C13: when the record's reference time is later than the clock sample,
\* getDispersion panics, and GetUnixTime on that record and sample ends in
\* the panic: no time value, no error.
C13_LaterReferencePanics ==
    (Called("getDispersion", 1) /\ ReferenceIsLater)
        => /\ fnResult[1].panic
           /\ \A o \in GetUnixTimeAfterRead(
                           [err |-> "nil", sec |-> fnArgs.sec, nsec |-> fnArgs.nsec,
                            data |-> Marshal(fnArgs.info, Zero(RecordSize)).val],
                           [count |-> Zero(2), time |-> EmptyUnixTime]) :
                 o.kind = "panic"

C14_PairAfterCall ==
    Completed
        => IF outcome.kind = "ok" /\ SnapshotInfo.Count # pre.last.count
           THEN last = [count |-> SnapshotInfo.Count, time |-> outcome.ut]
           ELSE last = pre.last

C14_PairChangesInSuccess ==
    last' # last
        => /\ pc = "process"
           /\ pc' = "idle"
           /\ outcome'.kind = "ok"
           /\ last'.count # last.count

\* C14: the last observed (count, time) pair changes only in the step in
\* which GetUnixTime returns a time for a record whose counter differs from
\* last.count, and is then (the record's counter, the returned UnixTime); a
\* successful call on an unchanged counter and every call that fails or
\* panics leave the pair as it was when the call began.
C14_LastObservedPair ==
    [](C14_PairAfterCall) /\ [][C14_PairChangesInSuccess]_vars

\* A successful call on a new counter replaced an earlier observed pair.
C14_Witness ==
    /\ Completed
    /\ outcome.kind = "ok"
    /\ ~IsEmpty(pre.last.time)
    /\ last # pre.last
    /\ last = [count |-> SnapshotInfo.Count, time |-> outcome.ut]

Releases(log) == SelectSeq(log, LAMBDA e : e \in {"dt", "semclose"})

C15_CloseStep ==
    (pc = "idle" /\ outcome'.op = "Close" /\ <<outcome, callLog>>' # <<outcome, callLog>>)
        => /\ mutex' = 0
           /\ data' = 0
           /\ Releases(callLog') = (IF data # 0 THEN <<"dt">> ELSE <<>>)
                                       \o (IF mutex # 0 THEN <<"semclose">> ELSE <<>>)
           /\ data # 0 => atts'[data] = "detached"
           /\ mutex # 0 => sems'[mutex] = "closed"
           /\ \A i \in DOMAIN sems : i # mutex => sems'[i] = sems[i]
           /\ \A i \in DOMAIN atts : i # data => atts'[i] = atts[i]
           /\ outcome'.kind =
                 IF \E i \in DOMAIN callLog' : callLog'[i] = "dtFailed" THEN "dtErr"
                 ELSE IF \E i \in DOMAIN callLog' : callLog'[i] = "semcloseFailed"
                      THEN "closeErr"
                 ELSE "nil"
           /\ (mutex = 0 /\ data = 0)
                 => /\ callLog' = <<>>
                    /\ outcome'.kind = "nil"
                    /\ UNCHANGED <<sems, atts>>

\* C15: Close detaches the segment and closes the semaphore the client
\* holds, sets both fields to nil also when a release fails, and returns
\* the detach error if there is one, otherwise the semaphore close error,
\* otherwise nil; a Close on a client that holds nothing (as after a first
\* Close) releases nothing and returns nil.
C15_CloseReleasesAndReportsFirst ==
    /\ [][C15_CloseStep]_vars
    /\ [](outcome.op = "Close" => (mutex = 0 /\ data = 0))

\* A Close in which both releases failed: the detach error is returned and
\* both fields are nil.
C15_Witness ==
    /\ outcome.op = "Close"
    /\ outcome.kind = "dtErr"
    /\ Has("semcloseFailed")
    /\ mutex = 0
    /\ data = 0

\* An int64 as a 128-bit two's complement value.
SignExt128(v) == [i \in 1..8 |-> IF IsNeg(v) THEN 255 ELSE 0] \o v

\* NSec below 1e9 and Sec*1e9 + NSec below 2^63.
FitsInt64(t) ==
    /\ ULess(t.NSec, U32(OneE9))
    /\ ULess(TotalNanos(t.Sec, t.NSec), Zero(8) \o <<128, 0, 0, 0, 0, 0, 0, 0>>)

\* C16: for a and b with NSec < 1e9 and Sec*1e9 + NSec within the int64
\* range, a.Sub(b) is (a.Sec*1e9 + a.NSec) - (b.Sec*1e9 + b.NSec), computed
\* here without wrap-around in 128 bits, and a.Sub(b) = -(b.Sub(a)); also
\* with a borrow (b.NSec > a.NSec) and with a.Sec = 0.
C16_SubExactAndAntisymmetric ==
    (Called("Sub", 1) /\ FitsInt64(fnArgs.t) /\ FitsInt64(fnArgs.other))
        => /\ SignExt128(fnResult[1])
                 = WSub(TotalNanos(fnArgs.t.Sec, fnArgs.t.NSec),
                        TotalNanos(fnArgs.other.Sec, fnArgs.other.NSec))
           /\ fnResult[1] = Neg64(Sub(fnArgs.other, fnArgs.t))

\* A subtraction that borrows a second from Sec = 0.
C16_Witness ==
    /\ Called("Sub", 1)
    /\ FitsInt64(fnArgs.t)
    /\ FitsInt64(fnArgs.other)
    /\ fnArgs.t.Sec = Zero(8)
    /\ fnArgs.other.Sec # Zero(8)
    /\ ULess(fnArgs.t.NSec, fnArgs.other.NSec)
    /\ IsNeg(fnResult[1])

\* The fields of r at the offsets 0, 1, 2, 4, 12, 20 of the bytes b, the
\* integers most significant byte first.
LaidOut(r, b) ==
    /\ Len(b) = RecordSize
    /\ b[1] = (IF r.Valid THEN 1 ELSE 0)
    /\ b[2] = (IF r.Locked THEN 1 ELSE 0)
    /\ SubSeq(b, 3, 4) = r.Count
    /\ SubSeq(b, 5, 12) = r.Dispersion
    /\ SubSeq(b, 13, 20) = r.Sec
    /\ SubSeq(b, 21, 24) = r.NSec
    /\ \A c \in {0, 1, 258, 65535} :
          r.Count = U16(c) => (b[3] = c \div 256 /\ b[4] = c % 256)
    /\ r.Dispersion = U64(OneE9)
          => SubSeq(b, 5, 12) = <<0, 0, 0, 0, 59, 154, 202, 0>>
    /\ r.NSec = U32(999999999) => SubSeq(b, 21, 24) = <<59, 154, 201, 255>>

\* C17: Marshal panics exactly for a destination shorter than 24 bytes and
\* otherwise returns 24 bytes with the six fields at offsets 0, 1, 2, 4, 12,
\* 20, big-endian; UnmarshalClientInfo of those bytes gives back the record,
\* equal in all six fields; UnmarshalClientInfo panics exactly for an input
\* whose length is not 24.
C17_CodecRoundTrip ==
    /\ (Called("Marshal", 1) \/ Called("Marshal", 2))
          => /\ fnResult[1].panic <=> fnArgs.len < RecordSize
             /\ ~fnResult[1].panic => LaidOut(fnArgs.c, fnResult[1].val)
    /\ Called("Marshal", 2)
          => /\ ~fnResult[2].panic
             /\ fnResult[2].info = fnArgs.c
    /\ Called("UnmarshalClientInfo", 1)
          => (fnResult[1].panic <=> Len(fnArgs.data) # RecordSize)

\* A record with a two-byte counter and different flags went through
\* Marshal into a 48-byte destination and back.
C17_Witness ==
    /\ Called("Marshal", 2)
    /\ fnArgs.len = 48
    /\ fnArgs.c.Count = <<1, 2>>
    /\ fnArgs.c.Valid
    /\ ~fnArgs.c.Locked
    /\ fnArgs.c.Dispersion # fnArgs.c.Sec
    /\ fnResult[2].info = fnArgs.c

C18_AtMostOnce ==
    outcome.op = "GetUnixTime"
        => /\ Count({"semopen", "semopenErr"}) <= 1
           /\ Count({"wait", "waitErr", "waitNil"}) <= 1
           /\ Count({"clock"}) <= 1
           /\ Count({"copy"}) <= 1
           /\ Count({"post", "postErr"}) <= 1
           /\ Count({"decode"}) <= 1

InCritical == pc \in {"clock", "copy", "post"}

C19_Exclusion ==
    /\ InCritical => (pubpc = "idle" /\ sem = 0)
    /\ pubpc = "half" => sem = 0
    /\ (outcome.op = "GetUnixTime" /\ Has("copy"))
          => /\ Has("wait")
             /\ buf \in Images \cup {Zero(ClientInfoSharedMemoryBufferSize)}
    /\ (outcome.op = "GetUnixTime" /\ Has("decode") /\ SnapshotPrefix = RecordSize)
          => SnapshotInfo \in Records

C19_NoWriteInCritical ==
    /\ InCritical => shm' = shm
    /\ (pc = "copy" /\ pc' = "post") => (buf' = shm /\ Has("clock"))

\* C19: the clock sample and the copy happen after the successful Wait and
\* before the Post, the publisher writes nothing in between, so the bytes the
\* client copies are the segment as one publication left it (or the fresh
\* zeroed segment), and every 24-byte record the client decodes is one
\* published record, never part of one and part of another.
C19_SnapshotIsOnePublication ==
    [](C19_Exclusion) /\ [][C19_NoWriteInCritical]_vars

\* A call returned a time from a copied record while the publisher, having
\* taken the semaphore afterwards, is half-way through the next write.
C19_Witness ==
    /\ Completed
    /\ outcome.kind = "ok"
    /\ Has("decode")
    /\ pubpc = "half"
    /\ buf # shm
    /\ shm \notin Images

\* The call follows a GetUnixTime that returned ErrNotReady or ErrStopped,
\* it re-acquired the semaphore and the segment, and the segment it copied
\* holds a 24-byte valid and locked record whose counter differs from the
\* last observed one.
RecoveryRead ==
    /\ outcome.op = "GetUnixTime"
    /\ pre.afterRefusal
    /\ Has("shmat")
    /\ Has("copy")
    /\ SnapshotPrefix = RecordSize
    /\ SnapshotValid
    /\ SnapshotLocked
    /\ SnapshotInfo.Count # pre.last.count

\* C20 as stated: after ErrNotReady or ErrStopped, a call that re-acquires
\* the IPC handles and finds a valid and locked record with a new counter
\* returns a time with a nil error and leaves resetRequired false.
C20_RefusalsAreTransient ==
    (Completed /\ RecoveryRead)
        => /\ outcome.kind = "ok"
           /\ outcome.ut # EmptyUnixTime
           /\ ~resetRequired

\* C20 amended: the same for a call whose Wait and Post succeeded and whose
\* clock sample is not earlier than the record's reference time: it returns
\* the time of its clock sample with a nil error, leaves resetRequired false
\* and records the new counter.
C20_RefusalsAreTransientWhenRead ==
    [][ ( /\ pc = "process"
          /\ pc' # "process"
          /\ RecoveryRead
          /\ loc.err = "nil"
          /\ ~IsNeg(Sub([Sec |-> loc.sec, NSec |-> loc.nsec, Dispersion |-> Zero(8)],
                        [Sec |-> SnapshotInfo.Sec, NSec |-> SnapshotInfo.NSec,
                         Dispersion |-> Zero(8)])) )
        => /\ pc' = "idle"
           /\ outcome'.kind = "ok"
           /\ outcome'.ut.Sec = loc.sec
           /\ outcome'.ut.NSec = loc.nsec
           /\ ~resetRequired'
           /\ last' = [count |-> SnapshotInfo.Count, time |-> outcome'.ut] ]_vars

\* A call right after a refusal reconnected, read a record with a new
\* counter and returned a time, with resetRequired clear.
C20_Witness ==
    /\ Completed
    /\ RecoveryRead
    /\ Has("post")
    /\ outcome.kind = "ok"
    /\ ~resetRequired
    /\ last = [count |-> SnapshotInfo.Count, time |-> outcome.ut]

\* C21: no handle is leaked by reconnection: every semaphore handle that
\* reset opened is either the one stored in the client or has been closed,
\* also when the segment get or attach step of that reset failed.
C21_NoSemaphoreLeak ==
    \A h \in DOMAIN sems : sems[h] = "open" => h = mutex

\* C22: read never uses a nil handle: whenever read has passed tryReset the
\* client's mutex and data are both non-nil, and in every state of an
\* existing client resetRequired = false implies both handles are held,
\* also after Close.
C22_NoNilHandleUse ==
    /\ pc \in {"wait", "clock", "copy", "post", "process"}
          => mutex # 0 /\ data # 0
    /\ (pc # "new" /\ ~resetRequired) => mutex # 0 /\ data # 0
    /\ ~Has("waitNil")

====
